---- MODULE Spec2Model ----
(***************************************************************************)
(* Model of sentry.web.frontend.projects (the project views) and of the    *)
(* model-layer signals exercised by tests/sentry/signals/tests.py.         *)
(*                                                                         *)
(* The database is the state: projects, teams, team members, the events    *)
(* stored per project and the per-project plugin options.  Every view is   *)
(* one action that maps a request (user, project, POST data and the        *)
(* answers of the permission collaborators) to a response and a new        *)
(* database state.  The actions model requests that reached the view       *)
(* function, i.e. that passed the decorator chain.                         *)
(***************************************************************************)
EXTENDS Integers, Sequences, FiniteSets, TLC

VARIABLES plugins, projects, teams, members, events, options, nextProject, nextTeam, request, response

vars == <<plugins, projects, teams, members, events, options, nextProject, nextTeam, request, response>>
db == <<plugins, projects, teams, members, events, options, nextProject, nextTeam>>

(* ---------------------------- bounds ----------------------------------- *)
\* project rows ever created (auto-increment primary key of Project)
MaxProjects == 2
\* team rows ever created (auto-increment primary key of Team)
MaxTeams == 3
\* events a client stores in one project
MaxEvents == 1

(* ---------------------------- constants -------------------------------- *)
None == "None"
Users == {"u1", "u2"}
\* the name field as submitted: blank, or a name
FormNames == {"", "foo", "bar"}
NewNames == {"", "foo"}
ProjectIds == 1..MaxProjects

\* settings.PROJECT: the id of the designated default project
PROJECT == 1
MEMBER_OWNER == 0
STATUS_VISIBLE == 0
\* a null foreign key (project.team is None, no project selected in a form)
NoTeam == 0
NoProject == 0
\* Python's True / False as a stored option value
PyBool(b) == IF b THEN "True" ELSE "False"

\* the slugs a plugin can be registered under, or a form can submit
PluginSlugs == {"mail", "trac", "core"}
\* plugin.can_enable_for_projects()
can_enable_for_projects(slug) == slug \in {"mail", "trac"}
\* plugin.project_conf_form is not None: the plugin has a per-project form
has_project_conf_form(slug) == slug = "mail"
\* the options of a plugin for a project: 'enabled', and the value its
\* per-project form stores
NoOptions == [enabled |-> None, conf |-> None]
\* plugin.is_enabled(project): off only when 'enabled' was set to False
is_enabled(opts) == opts.enabled # "False"

\* answers of plugins.first('has_perm', ...): True, False, or None (no answer)
HookResults == {"True", "False", None}

(* ---------------------------- requests and responses ------------------- *)
\* The last request answered: the view that answered it, and whether it
\* carried POST data.
NoRequest == [view |-> "", posted |-> FALSE]
Request(view, post) == [view |-> view, posted |-> post.nonempty]

\* Its response: a redirect (to a named route, with the route's argument), a
\* rendered template (with the state of the form in its context), or an
\* exception.
NoResponse == [kind |-> "none", to |-> "", arg |-> 0, form |-> "none"]
Redirect(to, arg) == [kind |-> "redirect", to |-> to, arg |-> arg, form |-> "none"]
\* HttpResponseRedirect(request.path + '?success=1')
SuccessRedirect == [kind |-> "redirect", to |-> "request.path?success=1", arg |-> 0, form |-> "none"]
Render(template, form) == [kind |-> "render", to |-> template, arg |-> 0, form |-> form]
Raise(exc) == [kind |-> "raise", to |-> exc, arg |-> 0, form |-> "none"]

(* ---------------------------- helpers ---------------------------------- *)
\* str() of a positive integer, as its sequence of decimal digits
RECURSIVE Str(_)
Str(n) == IF n < 10 THEN <<n>> ELSE Str(n \div 10) \o <<n % 10>>

\* request.POST or None: an empty QueryDict is falsy, so the form is unbound
IsBound(post) == post.nonempty

\* the form as the template context shows it
FormState(post) == IF IsBound(post) THEN "errors" ELSE "unbound"

\* sentry.web.helpers.get_project_list(user, hidden=False)
get_project_list(user, hidden) ==
    {p \in DOMAIN projects :
        /\ \E m \in members : m.team = projects[p].team /\ m.user = user
        /\ (hidden \/ projects[p].status = STATUS_VISIBLE)}

(* ---------------------------- model layer ------------------------------ *)
\* post_save signal of Team: the membership rows added for a new team
create_no_team_member(team, owner) == {}
create_team_member_for_owner(team, owner) ==
    {[id |-> Cardinality(members) + 1, team |-> team, user |-> owner, type |-> MEMBER_OWNER]}

\* Team.objects.create(owner=owner)
TeamSave(owner) ==
    /\ teams' = teams @@ (nextTeam :> [owner |-> owner])
    /\ members' = members \cup create_team_member_for_owner(nextTeam, owner)
    /\ nextTeam' = nextTeam + 1

\* post_save signal of Project: the team given to a new project (a team has an
\* owner, so a project without owner gets none)
create_team_for_project(owner) == IF owner = None THEN NoTeam ELSE nextTeam

\* Project.save() of a new row, with its post_save signal
ProjectSave(name, owner) ==
    LET pk == nextProject
        team == create_team_for_project(owner)
    IN  /\ projects' = projects @@
               (pk :> [name |-> name, owner |-> owner, team |-> team, status |-> STATUS_VISIBLE])
        /\ nextProject' = pk + 1
        /\ events' = events @@ (pk :> 0)
        /\ options' = options @@ (pk :> [s \in plugins |-> NoOptions])
        /\ UNCHANGED plugins
        /\ IF team = NoTeam
             THEN UNCHANGED <<plugins, teams, members, nextTeam>>
             ELSE TeamSave(owner)

Without(f, k) == [x \in DOMAIN f \ {k} |-> f[x]]

\* Project.delete(): the row and, by cascade, its events and options
ProjectDelete(p) ==
    /\ projects' = Without(projects, p)
    /\ events' = Without(events, p)
    /\ options' = Without(options, p)
    /\ UNCHANGED <<plugins, teams, members, nextProject, nextTeam>>

\* Project.merge_to(target): move the events to target, then delete the row
ProjectMergeTo(p, target) ==
    /\ projects' = Without(projects, p)
    /\ events' = Without([events EXCEPT ![target] = @ + events[p]], p)
    /\ options' = Without(options, p)
    /\ UNCHANGED <<plugins, teams, members, nextProject, nextTeam>>

\* Project.update(status=status)
ProjectUpdateStatus(p, status) ==
    /\ projects' = [projects EXCEPT ![p].status = status]
    /\ UNCHANGED <<plugins, teams, members, events, options, nextProject, nextTeam>>

(* ---------------------------- form layer ------------------------------- *)
\* request.POST per view: the empty QueryDict, or the submitted fields
NoNewProjectPost == [nonempty |-> FALSE, name |-> "", owner |-> None]
NewProjectPosts ==
    {NoNewProjectPost} \cup [nonempty : {TRUE}, name : NewNames, owner : Users \cup {None}]
NoRemoveProjectPost == [nonempty |-> FALSE, removal_type |-> "", project |-> NoProject]
\* the removal modes ("4" is not one of the form's choices) with no project
\* selected, a merge with or without a target, and a delete submitted with
\* project 2 selected as target
RemoveProjectPosts ==
    {NoRemoveProjectPost}
        \cup [nonempty : {TRUE}, removal_type : {"1", "3", "4"}, project : {NoProject}]
        \cup [nonempty : {TRUE}, removal_type : {"2"}, project : ProjectIds \cup {NoProject}]
        \cup {[nonempty |-> TRUE, removal_type |-> "1", project |-> 2]}
NoEditProjectPost == [nonempty |-> FALSE, name |-> ""]
EditProjectPosts == {NoEditProjectPost} \cup [nonempty : {TRUE}, name : FormNames]
NoPluginPost == [nonempty |-> FALSE, plugin |-> {}]
\* the checkboxes ticked in a submission of the plugin list
PluginSelections == {{}, {"mail"}, {"mail", "trac"}, {"trac", "core"}}
PluginPosts == {NoPluginPost} \cup [nonempty : {TRUE}, plugin : PluginSelections]
NoConfigPost == [nonempty |-> FALSE, value |-> ""]
ConfigPosts == {NoConfigPost} \cup [nonempty : {TRUE}, value : {"", "x"}]

\* NewProjectForm / NewProjectAdminForm .is_valid(): the name is required
NewProjectFormValid(data) == IsBound(data) /\ data.name # ""

\* form.save(commit=False): only the admin form has the owner field
NewProjectFormOwner(form_cls, data) ==
    IF form_cls = "NewProjectAdminForm" THEN data.owner ELSE None

\* RemoveProjectForm(project_list, data).is_valid(): a removal type of the
\* three choices; a selected project is one of project_list; a merge needs one
RemoveProjectFormValid(project_list, data) ==
    /\ IsBound(data)
    /\ data.removal_type \in {"1", "2", "3"}
    /\ (data.project = NoProject \/ data.project \in project_list)
    /\ (data.removal_type = "2" => data.project # NoProject)

\* EditProjectForm(request, data, instance=project).is_valid(): the name is required
EditProjectFormValid(data) == IsBound(data) /\ data.name # ""

\* the plugin's project_conf_form(data).is_valid(): the value is required
PluginConfFormValid(data) == IsBound(data) /\ data.value # ""

\* sentry.web.helpers.plugin_config(plugin, project, request): a valid
\* submission is stored in the plugin's options for the project and answered
\* with 'redirect'; anything else displays the form
plugin_config(slug, p, data) ==
    IF PluginConfFormValid(data)
      THEN [action |-> "redirect", view |-> "none",
            options |-> [options EXCEPT ![p][slug].conf = data.value]]
      ELSE [action |-> "display", view |-> FormState(data), options |-> options]

(* ---------------------------- views ------------------------------------ *)
\* project_list, lines 26-40: renders the user's projects, hidden ones
\* included, annotated from their memberships and keys; nothing is stored
project_list(user) ==
    /\ request' = [view |-> "project_list", posted |-> FALSE]
    /\ response' = Render("sentry/projects/list.html", "none")
    /\ UNCHANGED db

\* new_project, line 46: the permission gate
CreateNeverDenied(can_create) == FALSE
CreateDenied(can_create) == ~can_create

\* new_project, lines 61-62: the owner of the project that is saved
ProjectOwnerKept(form_owner, user) == form_owner
ProjectOwner(form_owner, user) == IF form_owner = None THEN user ELSE form_owner

new_project(user, post, can_create, can_add) ==
    /\ request' = Request("new_project", post)
    /\ IF CreateDenied(can_create)
         THEN /\ response' = Redirect("sentry", 0)
              /\ UNCHANGED db
         ELSE LET form_cls == IF can_add THEN "NewProjectAdminForm" ELSE "NewProjectForm"
              IN  IF NewProjectFormValid(post)
                    THEN /\ nextProject <= MaxProjects
                         /\ nextTeam <= MaxTeams
                         /\ ProjectSave(post.name, ProjectOwner(NewProjectFormOwner(form_cls, post), user))
                         /\ response' = Redirect("sentry-manage-project", nextProject)
                    ELSE /\ response' = Render("sentry/projects/new.html", FormState(post))
                         /\ UNCHANGED db

\* remove_project, line 78: the guard for the default project
NeverDefaultProject(p) == FALSE
IsDefaultProject(p) == Str(p) = Str(PROJECT)

\* remove_project, line 84: the merge targets offered by the form
RemoveProjectListUnfiltered(user, p) == get_project_list(user, FALSE)
RemoveProjectList(user, p) == {x \in get_project_list(user, FALSE) : x # p}

\* remove_project, lines 89-100: the effect of a valid form
RemoveProjectApplyHideDeletes(p, data) ==
    /\ response' = Redirect("sentry-project-list", 0)
    /\ IF data.removal_type = "2" THEN ProjectMergeTo(p, data.project) ELSE ProjectDelete(p)
RemoveProjectApply(p, data) ==
    CASE data.removal_type = "1" ->
            ProjectDelete(p) /\ response' = Redirect("sentry-project-list", 0)
      [] data.removal_type = "2" ->
            ProjectMergeTo(p, data.project) /\ response' = Redirect("sentry-project-list", 0)
      [] data.removal_type = "3" ->
            ProjectUpdateStatus(p, 1) /\ response' = Redirect("sentry-project-list", 0)
      [] OTHER ->
            response' = Raise("ValueError") /\ UNCHANGED db

remove_project(user, p, post, can_remove) ==
    /\ p \in DOMAIN projects
    /\ request' = Request("remove_project", post)
    /\ IF IsDefaultProject(p)
         THEN /\ response' = Redirect("sentry-project-list", 0)
              /\ UNCHANGED db
         ELSE IF ~can_remove
           THEN /\ response' = Redirect("sentry", 0)
                /\ UNCHANGED db
           ELSE IF RemoveProjectFormValid(RemoveProjectList(user, p), post)
             THEN RemoveProjectApply(p, post)
             ELSE /\ response' = Render("sentry/projects/remove.html", FormState(post))
                  /\ UNCHANGED db

\* manage_project, line 116 / manage_plugins, line 181: the permission gate
PermDeniedWithPerm(result, has_perm) == result = "False" /\ has_perm
PermDenied(result, has_perm) == result = "False" /\ ~has_perm

\* manage_project, lines 115-137, saving when `saves` holds
ManageProjectBody(p, post, result, can_change, saves) ==
    /\ p \in DOMAIN projects
    /\ request' = Request("manage_project", post)
    /\ IF PermDenied(result, can_change)
         THEN /\ response' = Redirect("sentry", 0)
              /\ UNCHANGED db
         ELSE IF saves
           THEN /\ projects' = [projects EXCEPT ![p].name = post.name]
                /\ UNCHANGED <<plugins, teams, members, events, options, nextProject, nextTeam>>
                /\ response' = SuccessRedirect
           ELSE /\ response' = IF projects[p].team = NoTeam
                                 THEN Raise("AttributeError")
                                 ELSE Render("sentry/projects/manage.html", FormState(post))
                /\ UNCHANGED db

manage_project_saves_bound(p, post, result, can_change) ==
    ManageProjectBody(p, post, result, can_change, IsBound(post))
manage_project(p, post, result, can_change) ==
    ManageProjectBody(p, post, result, can_change, EditProjectFormValid(post))

\* configure_project_plugin, lines 143-173
configure_project_plugin(p, slug, post, result, is_superuser) ==
    /\ p \in DOMAIN projects
    /\ request' = Request("configure_project_plugin", post)
    /\ IF slug \notin plugins
         THEN /\ response' = Redirect("sentry-manage-project", p)
              /\ UNCHANGED db
         ELSE IF ~is_enabled(options[p][slug])
           THEN /\ response' = Redirect("sentry-manage-project", p)
                /\ UNCHANGED db
           ELSE IF PermDenied(result, is_superuser)
             THEN /\ response' = Redirect("sentry", 0)
                  /\ UNCHANGED db
             ELSE IF ~has_project_conf_form(slug)
               THEN /\ response' = Redirect("sentry-manage-project", p)
                    /\ UNCHANGED db
               ELSE LET config == plugin_config(slug, p, post)
                    IN  /\ options' = config.options
                        /\ UNCHANGED <<plugins, projects, teams, members, events, nextProject, nextTeam>>
                        /\ response' = IF config.action = "redirect"
                                         THEN SuccessRedirect
                                         ELSE Render("sentry/projects/plugins/configure.html", config.view)

\* manage_plugins, line 184: `if request.POST:`
PostAlwaysTruthy(post) == TRUE
PostTruthy(post) == post.nonempty

\* manage_plugins, lines 185-188: the project's options after the submission
PluginOptionsOnlyEnable(opts, enabled) ==
    [s \in plugins |-> IF can_enable_for_projects(s) /\ s \in enabled
                         THEN [opts[s] EXCEPT !.enabled = "True"]
                         ELSE opts[s]]
PluginOptionsAfter(opts, enabled) ==
    [s \in plugins |-> IF can_enable_for_projects(s)
                         THEN [opts[s] EXCEPT !.enabled = PyBool(s \in enabled)]
                         ELSE opts[s]]

manage_plugins(p, post, result, can_change) ==
    /\ p \in DOMAIN projects
    /\ request' = Request("manage_plugins", post)
    /\ IF PermDenied(result, can_change)
         THEN /\ response' = Redirect("sentry", 0)
              /\ UNCHANGED db
         ELSE IF PostTruthy(post)
           THEN /\ options' = [options EXCEPT ![p] = PluginOptionsAfter(@, post.plugin)]
                /\ UNCHANGED <<plugins, projects, teams, members, events, nextProject, nextTeam>>
                /\ response' = SuccessRedirect
           ELSE /\ response' = Render("sentry/projects/plugins/list.html", "none")
                /\ UNCHANGED db

(* ---------------------------- tests / environment ---------------------- *)
\* SentrySignalTest.test_create_team_for_project: Project.objects.create(...)
test_create_team_for_project(user) ==
    /\ nextProject <= MaxProjects
    /\ nextTeam <= MaxTeams
    /\ ProjectSave("foo", user)
    /\ UNCHANGED <<request, response>>

\* SentrySignalTest.test_create_team_member_for_owner: Team.objects.create(...)
test_create_team_member_for_owner(user) ==
    /\ nextTeam <= MaxTeams
    /\ TeamSave(user)
    /\ UNCHANGED <<plugins, projects, events, options, nextProject, request, response>>

\* a client stores an event in a project
StoreEvent(p) ==
    /\ p \in DOMAIN projects
    /\ events[p] < MaxEvents
    /\ events' = [events EXCEPT ![p] = @ + 1]
    /\ UNCHANGED <<plugins, projects, teams, members, options, nextProject, nextTeam, request, response>>

(* ---------------------------- specifications --------------------------- *)
\* the default project, created for the first user, no request answered yet,
\* and the plugins `registry` registered
InitWith(registry) ==
    /\ plugins = registry
    /\ projects = (PROJECT :> [name |-> "foo", owner |-> "u1", team |-> 1, status |-> STATUS_VISIBLE])
    /\ teams = (1 :> [owner |-> "u1"])
    /\ members = {[id |-> 1, team |-> 1, user |-> "u1", type |-> MEMBER_OWNER]}
    /\ events = (PROJECT :> 0)
    /\ options = (PROJECT :> [s \in registry |-> NoOptions])
    /\ nextProject = 2
    /\ nextTeam = 2
    /\ request = NoRequest
    /\ response = NoResponse

Init == InitWith({"mail", "core"})
InitPlugins == InitWith({"mail", "trac", "core"})

NewProjectStep == \E u \in Users, post \in NewProjectPosts, cc \in BOOLEAN, ca \in BOOLEAN :
    new_project(u, post, cc, ca)
RemoveProjectStep == \E u \in Users, p \in ProjectIds, post \in RemoveProjectPosts, cr \in BOOLEAN :
    remove_project(u, p, post, cr)
ManageProjectStep == \E p \in ProjectIds, post \in EditProjectPosts, r \in HookResults, hp \in BOOLEAN :
    manage_project(p, post, r, hp)
ManagePluginsStep == \E p \in ProjectIds, post \in PluginPosts, r \in HookResults, hp \in BOOLEAN :
    manage_plugins(p, post, r, hp)
TestProjectStep == \E u \in Users : test_create_team_for_project(u)
TestTeamStep == \E u \in Users : test_create_team_member_for_owner(u)
StoreEventStep == \E p \in ProjectIds : StoreEvent(p)
ProjectListStep == \E u \in Users : project_list(u)
ConfigurePluginStep ==
    \E p \in ProjectIds, slug \in PluginSlugs, post \in ConfigPosts, r \in HookResults, su \in BOOLEAN :
        configure_project_plugin(p, slug, post, r, su)

\* project and team creation: the signals
NextCreate ==
    NewProjectStep \/ TestProjectStep \/ TestTeamStep \/ RemoveProjectStep \/ ProjectListStep
SpecCreate == Init /\ [][NextCreate]_vars

\* project removal, with events stored in the projects
NextRemove == NewProjectStep \/ RemoveProjectStep \/ StoreEventStep
SpecRemove == Init /\ [][NextRemove]_vars

\* project editing
NextManage == NewProjectStep \/ ManageProjectStep \/ RemoveProjectStep
SpecManage == Init /\ [][NextManage]_vars

\* plugin enablement and configuration
NextPlugins == NewProjectStep \/ RemoveProjectStep \/ ManagePluginsStep \/ ConfigurePluginStep
SpecPlugins == InitPlugins /\ [][NextPlugins]_vars

\* the four views that read request.POST for a form or a selection
NextViews == NewProjectStep \/ RemoveProjectStep \/ ManageProjectStep \/ ManagePluginsStep
SpecViews == Init /\ [][NextViews]_vars

\* every view, the tests and the event client
Next ==
    \/ ProjectListStep
    \/ NewProjectStep
    \/ RemoveProjectStep
    \/ ManageProjectStep
    \/ ConfigurePluginStep
    \/ ManagePluginsStep
    \/ TestProjectStep
    \/ TestTeamStep
    \/ StoreEventStep
Spec == Init /\ [][Next]_vars
(* ---------------------------- claims ------------------------------------ *)
ProjectListRedirect == Redirect("sentry-project-list", 0)

\* the step answers a request to `view`: every step of a view is such a step
AnsweredBy(view) == request'.view = view

\* the requests that carry POST data, per view
NewProjectSubmissions == {post \in NewProjectPosts : post.nonempty}
RemoveSubmissions(mode) == {post \in RemoveProjectPosts : post.nonempty /\ post.removal_type = mode}
EditProjectSubmissions == {post \in EditProjectPosts : post.nonempty}
PluginSubmissions == {post \in PluginPosts : post.nonempty}

\* the user passes the permission gate of manage_project / manage_plugins
Permitted(r, hp) == ~(r = "False" /\ ~hp)

\* C1: in the state right after a project is created (by Project.objects.create
\* with an owner, or by the save of new_project), the project's team is not
\* null: it is a team row that exists.
C1_CreatedProjectHasTeam ==
    [][\A p \in DOMAIN projects' \ DOMAIN projects :
          /\ projects'[p].team # NoTeam
          /\ projects'[p].team \in DOMAIN teams']_vars

\* C1 witness: new_project has just saved a project, which has its team
C1_Witness ==
    \E p \in DOMAIN projects :
        /\ request.view = "new_project"
        /\ response = Redirect("sentry-manage-project", p)
        /\ projects[p].team \in DOMAIN teams

OwnerMemberships(t) ==
    {m \in members : m.team = t /\ m.user = teams[t].owner /\ m.type = MEMBER_OWNER}

\* C2: every team, however it was created, has exactly one membership of type
\* OWNER for its owner.
C2_ExactlyOneOwnerMembership ==
    \A t \in DOMAIN teams : Cardinality(OwnerMemberships(t)) = 1

\* C2 witness: a team created by Team.objects.create for u2 (no project was
\* ever created for it) has its one owner membership
C2_Witness ==
    \E t \in DOMAIN teams :
        /\ t # 1
        /\ nextProject = 2
        /\ teams[t].owner = "u2"
        /\ Cardinality(OwnerMemberships(t)) = 1

\* C3: a user for whom can_create_projects is false who submits the new-project
\* form, with any POST data, is redirected to the landing page, and the set of
\* projects is unchanged.
C3_DeniedCreateRedirects ==
    [][AnsweredBy("new_project") =>
       \A u \in Users, post \in NewProjectSubmissions, ca \in BOOLEAN :
          new_project(u, post, FALSE, ca) =>
              /\ response' = Redirect("sentry", 0)
              /\ projects' = projects]_vars

\* C3 witness: new_project has answered a submission with the redirect to the
\* landing page
C3_Witness ==
    /\ request = [view |-> "new_project", posted |-> TRUE]
    /\ response = Redirect("sentry", 0)

\* C4: for a permitted user on a non-default project, a valid form with removal
\* mode "2" merges the project into the selected target: the target is another
\* project, it still exists, unchanged, and holds the events of both; the
\* source project exists no more; the response redirects to the project list.
C4_MergeRemovesSourceKeepsTarget ==
    [][AnsweredBy("remove_project") =>
       \A u \in Users, p \in ProjectIds \ {PROJECT}, post \in RemoveSubmissions("2") :
          (/\ remove_project(u, p, post, TRUE)
           /\ RemoveProjectFormValid(RemoveProjectList(u, p), post)) =>
              /\ post.project # p
              /\ p \notin DOMAIN projects'
              /\ post.project \in DOMAIN projects'
              /\ projects'[post.project] = projects[post.project]
              /\ events'[post.project] = events[post.project] + events[p]
              /\ response' = ProjectListRedirect]_vars

\* C4 witness: after a removal a project holds more events than clients stored
\* in it, so another project's events were merged into it
C4_Witness ==
    \E t \in DOMAIN projects :
        /\ events[t] > MaxEvents
        /\ request.view = "remove_project"
        /\ response = ProjectListRedirect

\* C5: for a permitted user on a non-default project, a valid form with removal
\* mode "3" sets the project's status to 1 (disabled) and changes nothing else:
\* the row persists, no other project, no event and no option is changed.
C5_DisableKeepsRow ==
    [][AnsweredBy("remove_project") =>
       \A u \in Users, p \in ProjectIds \ {PROJECT}, post \in RemoveSubmissions("3") :
          (/\ remove_project(u, p, post, TRUE)
           /\ RemoveProjectFormValid(RemoveProjectList(u, p), post)) =>
              /\ projects' = [projects EXCEPT ![p].status = 1]
              /\ events' = events
              /\ options' = options
              /\ response' = ProjectListRedirect]_vars

\* C5 witness: a disabled project is stored after a removal request
C5_Witness ==
    \E p \in DOMAIN projects :
        /\ projects[p].status = 1
        /\ request.view = "remove_project"
        /\ response = ProjectListRedirect

\* C6: in manage_project a submitted edit form that fails validation re-renders
\* the manage page, with the form's errors, and the stored projects are unchanged.
C6_InvalidEditPersistsNothing ==
    [][AnsweredBy("manage_project") =>
       \A p \in ProjectIds, post \in EditProjectSubmissions, r \in HookResults, hp \in BOOLEAN :
          (/\ manage_project(p, post, r, hp)
           /\ Permitted(r, hp)
           /\ ~EditProjectFormValid(post)) =>
              /\ response' = Render("sentry/projects/manage.html", "errors")
              /\ projects' = projects]_vars

\* C6 witness: manage_project has re-rendered the page with a form with errors
C6_Witness ==
    /\ request = [view |-> "manage_project", posted |-> TRUE]
    /\ response = Render("sentry/projects/manage.html", "errors")

\* C7: no remove_project request removes the default project or changes its
\* status, and every remove_project request on the default project, whatever
\* the user's permission and the form, redirects to the project list and
\* changes nothing.  (Each part reads: the outcome holds, or the step is no
\* such request.)
C7_DefaultProjectNeverRemoved ==
    [][AnsweredBy("remove_project") =>
       /\ \/ /\ PROJECT \in DOMAIN projects'
             /\ projects'[PROJECT].status = projects[PROJECT].status
          \/ ~\E u \in Users, p \in ProjectIds, post \in RemoveProjectPosts, cr \in BOOLEAN :
                remove_project(u, p, post, cr)
       /\ \/ response' = ProjectListRedirect /\ UNCHANGED db
          \/ ~\E u \in Users, post \in RemoveProjectPosts, cr \in BOOLEAN :
                remove_project(u, PROJECT, post, cr)]_vars

\* C7 witness: only the default project was ever created, a submitted
\* remove_project request was answered with the redirect to the list, and the
\* project is there
C7_Witness ==
    /\ nextProject = 2
    /\ request = [view |-> "remove_project", posted |-> TRUE]
    /\ response = ProjectListRedirect
    /\ PROJECT \in DOMAIN projects
    /\ projects[PROJECT].status = STATUS_VISIBLE

\* C8 as stated: in manage_project a user whom the hook does not grant
\* 'edit_project' (it answers False, or gives no answer) and who lacks
\* sentry.can_change_project is redirected to the landing page and changes no
\* project.
C8_Original ==
    [][AnsweredBy("manage_project") =>
       \A p \in ProjectIds, post \in EditProjectPosts, r \in {"False", None} :
          manage_project(p, post, r, FALSE) =>
              /\ response' = Redirect("sentry", 0)
              /\ projects' = projects]_vars

\* C8 amended: in manage_project a user to whom the hook answers False and who
\* lacks sentry.can_change_project is redirected to the landing page and
\* changes no project; when the hook gives no answer the user is not turned
\* away, with or without the framework permission.
C8_DeniedOnlyOnFalse ==
    [][AnsweredBy("manage_project") =>
       \A p \in ProjectIds, post \in EditProjectPosts, hp \in BOOLEAN :
          /\ manage_project(p, post, "False", FALSE) =>
                /\ response' = Redirect("sentry", 0)
                /\ projects' = projects
          /\ manage_project(p, post, None, hp) =>
                response' # Redirect("sentry", 0)]_vars

\* C8 witness: manage_project has turned a user away
C8_Witness ==
    /\ request.view = "manage_project"
    /\ response = Redirect("sentry", 0)

\* C9: in manage_plugins, after a permitted non-empty POST, every registered
\* plugin that can be enabled for projects has its 'enabled' option for this
\* project equal to (its slug is among the submitted 'plugin' values); the
\* option of the other plugins, and the options of every other project, are
\* unchanged; the response is the ?success=1 redirect.
C9_PluginsToggledBySelection ==
    [][AnsweredBy("manage_plugins") =>
       \A p \in ProjectIds, post \in PluginSubmissions, r \in HookResults, hp \in BOOLEAN :
          (manage_plugins(p, post, r, hp) /\ Permitted(r, hp)) =>
              /\ \A s \in plugins :
                    IF s \in {"mail", "trac"}
                      THEN /\ options'[p][s].enabled = PyBool(s \in post.plugin)
                           /\ options'[p][s].conf = options[p][s].conf
                      ELSE options'[p][s] = options[p][s]
              /\ \A q \in DOMAIN options \ {p} : options'[q] = options[q]
              /\ DOMAIN options' = DOMAIN options
              /\ response' = SuccessRedirect]_vars

\* C9 witness: after a submission one plugin is on and keeps its stored
\* configuration, the unselected one is off, and the plugin that cannot be
\* enabled for projects has no option
C9_Witness ==
    \E p \in DOMAIN options :
        /\ request = [view |-> "manage_plugins", posted |-> TRUE]
        /\ response = SuccessRedirect
        /\ options[p]["mail"] = [enabled |-> "True", conf |-> "x"]
        /\ options[p]["trac"].enabled = "False"
        /\ options[p]["core"] = NoOptions

\* a request without POST data has left the database as it was and was not
\* answered with the ?success=1 redirect
NothingStored == UNCHANGED db /\ response' # SuccessRedirect

\* what C10 says of a request without POST data, where default_renders tells
\* whether remove_project on the default project is said to render too.
\* (Each part reads: the outcome holds, or the step is no such request.)
NoPostRequests(default_renders) ==
    /\ AnsweredBy("new_project") =>
          /\ \/ NothingStored
             \/ ~\E u \in Users, cc \in BOOLEAN, ca \in BOOLEAN :
                   new_project(u, NoNewProjectPost, cc, ca)
          /\ \/ response'.kind = "render"
             \/ ~\E u \in Users, ca \in BOOLEAN : new_project(u, NoNewProjectPost, TRUE, ca)
    /\ AnsweredBy("remove_project") =>
          /\ \/ NothingStored
             \/ ~\E u \in Users, p \in ProjectIds, cr \in BOOLEAN :
                   remove_project(u, p, NoRemoveProjectPost, cr)
          /\ \/ response'.kind = "render"
             \/ ~\E u \in Users, p \in {q \in ProjectIds : default_renders \/ q # PROJECT} :
                   remove_project(u, p, NoRemoveProjectPost, TRUE)
    /\ AnsweredBy("manage_project") =>
          /\ \/ NothingStored
             \/ ~\E p \in ProjectIds, r \in HookResults, hp \in BOOLEAN :
                   manage_project(p, NoEditProjectPost, r, hp)
          /\ \/ response'.kind = "render"
             \/ ~\E p \in ProjectIds, r \in HookResults, hp \in BOOLEAN :
                   Permitted(r, hp) /\ manage_project(p, NoEditProjectPost, r, hp)
    /\ AnsweredBy("manage_plugins") =>
          /\ \/ NothingStored
             \/ ~\E p \in ProjectIds, r \in HookResults, hp \in BOOLEAN :
                   manage_plugins(p, NoPluginPost, r, hp)
          /\ \/ response'.kind = "render"
             \/ ~\E p \in ProjectIds, r \in HookResults, hp \in BOOLEAN :
                   Permitted(r, hp) /\ manage_plugins(p, NoPluginPost, r, hp)

\* C10 as stated: a request without POST data changes nothing stored in
\* new_project, remove_project, manage_project and manage_plugins, never ends
\* in a ?success=1 redirect, and by a permitted user ends in a template render.
C10_Original == [][~request'.posted => NoPostRequests(TRUE)]_vars

\* C10 amended: as stated, except that remove_project on the default project
\* answers a permitted user too with the redirect to the project list, not
\* with a template render.
C10_NoPostChangesNothing == [][~request'.posted => NoPostRequests(FALSE)]_vars

\* C10 witness: remove_project has rendered its page with an unbound form
C10_Witness ==
    /\ request = [view |-> "remove_project", posted |-> FALSE]
    /\ response = Render("sentry/projects/remove.html", "unbound")
====
